---- MODULE Spec2Model ----
(***************************************************************************)
(* A model of two parts of s5cmd:                                          *)
(*   - command.Select.Run: the driver that ranges over the enumerated      *)
(*     object descriptors, submits one task per eligible object to the     *)
(*     parallel Waiter, and collects the task errors in a goroutine;       *)
(*   - core.ParseJob / parseSingleJob / parseArgumentByType: the job       *)
(*     grammar parser and its argument type validator.                     *)
(* Strings are sequences of one-character strings.                         *)
(***************************************************************************)
EXTENDS Integers, Sequences, FiniteSets, TLC

VARIABLES
    \* ---- Select.Run ----
    seen,          \* descriptors received from objch so far, in order
    pcRun,         \* position of Run: "loop", "acquire", "wait", "recvDone", "returned"
    task,          \* task[i]: state of the task submitted for descriptor i
    pcColl,        \* position of the collector goroutine: "recv", "append", "done"
    collErr,       \* the error the collector holds between receive and append
    merror,        \* the aggregate error: sequence of entries, <<>> is nil
    printed,       \* what printError was called with
    errchClosed,   \* waiter.Err() has been closed
    errDoneClosed, \* errDoneCh has been closed
    retval,        \* what Run returned (read of merror at the return statement)
    \* ---- ParseJob ----
    input,         \* the line given to ParseJob
    pcParse,       \* "start", "done"
    normalized,    \* the line after comment stripping, trimming, space collapsing
    pjResult,      \* what ParseJob returned
    \* ---- parseArgumentByType ----
    token,         \* the token given to parseArgumentByType
    ptype,         \* its declared ParamType
    fnObjIn,       \* the fnObj argument: the first file/object argument seen, or nil
    pcType,        \* "start", "done"
    paResult,      \* what parseArgumentByType returned
    \* ---- environment of the parser: the local file system seen by os.Stat ----
    fsDirs, fsFiles, fsBad

runVars   == <<seen, pcRun, task, pcColl, collErr, merror, printed,
               errchClosed, errDoneClosed, retval>>
parseVars == <<input, pcParse, normalized, pjResult>>
typeVars  == <<token, ptype, fnObjIn, pcType, paResult>>
fsVars    == <<fsDirs, fsFiles, fsBad>>
vars      == <<runVars, parseVars, typeVars, fsVars>>

(***************************************************************************)
(* Bounds                                                                  *)
(***************************************************************************)
MaxObjs   == 3   \* descriptors the enumerator produces at most
PoolSize  == 2   \* tasks the worker pool runs at once
MaxSegs   == 4   \* segments chained in one line
MaxRun    == 9   \* spaces in one run
MaxToks   == 3   \* tokens after the keyword
MaxTokLen == 3   \* characters of a token given to the validator


(***************************************************************************)
(* Strings: the functions of package strings that the parser uses          *)
(***************************************************************************)
\* what strings.TrimSpace removes and the regexps' \s matches
WhiteSpace == {" ", "\t", "\n", "\r", "\f"}

IsSpace(c) == c \in WhiteSpace

\* s[i:j] with 1-based inclusive ends; empty when j < i
Slice(s, i, j) == IF j < i THEN <<>> ELSE SubSeq(s, i, j)

HasPrefixAt(s, i, sub) ==
    /\ i >= 1
    /\ i + Len(sub) - 1 <= Len(s)
    /\ \A k \in 1..Len(sub) : s[i + k - 1] = sub[k]

\* strings.Index, 1-based; 0 when sub does not occur
Index(s, sub) ==
    LET hits == {i \in 1..(Len(s) + 1) : HasPrefixAt(s, i, sub)}
    IN IF hits = {} THEN 0 ELSE CHOOSE i \in hits : \A j \in hits : i <= j

\* strings.Contains
Contains(s, sub) == Index(s, sub) # 0

\* strings.ContainsAny
ContainsAny(s, chars) == \E i \in 1..Len(s) : s[i] \in chars

\* strings.HasSuffix
HasSuffix(s, sub) == Len(sub) <= Len(s) /\ HasPrefixAt(s, Len(s) - Len(sub) + 1, sub)

\* strings.HasPrefix
HasPrefix(s, sub) == HasPrefixAt(s, 1, sub)

\* strings.Split(s, sep) for a non-empty sep: never an empty list
RECURSIVE Split(_, _)
Split(s, sep) ==
    LET i == Index(s, sep)
    IN IF i = 0 THEN <<s>>
       ELSE <<Slice(s, 1, i - 1)>> \o Split(Slice(s, i + Len(sep), Len(s)), sep)

\* strings.Replace(s, old, new, -1) for a non-empty old: left to right, no overlap
RECURSIVE Replace(_, _, _)
Replace(s, old, new) ==
    LET i == Index(s, old)
    IN IF i = 0 THEN s
       ELSE Slice(s, 1, i - 1) \o new \o Replace(Slice(s, i + Len(old), Len(s)), old, new)

\* strings.TrimSpace
TrimSpace(s) ==
    LET keep == {i \in 1..Len(s) : ~IsSpace(s[i])}
    IN IF keep = {} THEN <<>>
       ELSE Slice(s, CHOOSE i \in keep : \A j \in keep : i <= j,
                     CHOOSE i \in keep : \A j \in keep : i >= j)

\* strings.TrimLeft(s, "/")
RECURSIVE TrimLeftSlash(_)
TrimLeftSlash(s) == IF s # <<>> /\ s[1] = "/" THEN TrimLeftSlash(Tail(s)) ELSE s

Separator == "/"

\* filepath.Base
RECURSIVE StripTrailingSep(_)
StripTrailingSep(s) ==
    IF s # <<>> /\ s[Len(s)] = Separator THEN StripTrailingSep(Slice(s, 1, Len(s) - 1)) ELSE s

Base(path) ==
    IF path = <<>> THEN <<".">>
    ELSE LET p == StripTrailingSep(path)
             seps == {i \in 1..Len(p) : p[i] = Separator}
         IN IF p = <<>> THEN <<Separator>>
            ELSE IF seps = {} THEN p
            ELSE Slice(p, (CHOOSE i \in seps : \A j \in seps : i >= j) + 1, Len(p))

(***************************************************************************)
(* ParseJob: normalisation of the line                                     *)
(***************************************************************************)
Sp == <<" ">>

CollapseOnce(s) == Replace(s, Sp \o Sp, Sp)

\* the three strings.Replace calls
CollapseSpaces(s) == CollapseOnce(CollapseOnce(CollapseOnce(s)))

\* strings.Split(jobdesc, " #")[0]
StripComment(s) == Split(s, <<" ", "#">>)[1]

Normalize(line) == CollapseSpaces(TrimSpace(StripComment(line)))

(***************************************************************************)
(* The local file system as os.Stat sees it                                *)
(***************************************************************************)
\* os.Stat(s): "dir", "file", "notexist", or "err" for any other failure
Stat(s) ==
    IF s \in fsDirs THEN "dir"
    ELSE IF s \in fsFiles THEN "file"
    ELSE IF s \in fsBad THEN "err"
    ELSE "notexist"

(***************************************************************************)
(* package url: remote locations                                           *)
(***************************************************************************)
S3Schema == <<"s", "3", ":", "/", "/">>

\* url.HasWild
HasWild(key) == ContainsAny(key, {"*", "?"})

\* url.ParseS3Url: s3://bucket[/key]
ParseS3Url(s) ==
    IF ~HasPrefix(s, S3Schema)
    THEN [ok |-> FALSE, err |-> "S3 url should start with s3://", bucket |-> <<>>, key |-> <<>>]
    ELSE LET rest   == Slice(s, Len(S3Schema) + 1, Len(s))
             i      == Index(rest, <<"/">>)
             bucket == IF i = 0 THEN rest ELSE Slice(rest, 1, i - 1)
             key    == IF i = 0 THEN <<>> ELSE TrimLeftSlash(Slice(rest, i + 1, Len(rest)))
         IN IF bucket = <<>>
            THEN [ok |-> FALSE, err |-> "S3 url should have a bucket", bucket |-> <<>>, key |-> <<>>]
            ELSE IF HasWild(bucket)
            THEN [ok |-> FALSE, err |-> "Bucket name cannot contain wildcards",
                  bucket |-> <<>>, key |-> <<>>]
            ELSE [ok |-> TRUE, err |-> "", bucket |-> bucket, key |-> key]

\* S3Url.Format
Format(u) == IF u.key = <<>> THEN u.bucket ELSE u.bucket \o <<"/">> \o u.key

(***************************************************************************)
(* filepath.Match(pattern, ""): only whether the pattern is well formed    *)
(***************************************************************************)
RECURSIVE PatternOK(_)
RECURSIVE ClassOK(_, _)
\* getEsc: the rest of the class after one (possibly escaped) character,
\* <<"bad">> standing for ErrBadPattern
GetEsc(c) ==
    IF c = <<>> \/ c[1] \in {"-", "]"} THEN <<"bad">>
    ELSE LET d == IF c[1] = "\\" THEN Tail(c) ELSE c
         IN IF d = <<>> THEN <<"bad">>
            ELSE IF Tail(d) = <<>> THEN <<"bad">>
            ELSE <<"ok", Tail(d)>>

ClassOK(c, nrange) ==
    IF c # <<>> /\ c[1] = "]" /\ nrange > 0 THEN PatternOK(Tail(c))
    ELSE LET lo == GetEsc(c)
         IN IF lo[1] = "bad" THEN FALSE
            ELSE IF lo[2][1] = "-"
            THEN LET hi == GetEsc(Tail(lo[2]))
                 IN IF hi[1] = "bad" THEN FALSE ELSE ClassOK(hi[2], nrange + 1)
            ELSE ClassOK(lo[2], nrange + 1)

PatternOK(p) ==
    IF p = <<>> THEN TRUE
    ELSE IF p[1] = "["
    THEN LET c == Tail(p)
         IN ClassOK(IF c # <<>> /\ c[1] = "^" THEN Tail(c) ELSE c, 0)
    ELSE IF p[1] = "\\" THEN Len(p) >= 2 /\ PatternOK(Tail(Tail(p)))
    ELSE PatternOK(Tail(p))

(***************************************************************************)
(* parseArgumentByType                                                     *)
(***************************************************************************)
S3Types   == {"S3Obj", "S3ObjOrDir", "S3WildObj", "S3Dir"}
FileTypes == {"FileObj", "FileOrDir", "Dir"}
\* opt.ParamType
ParamTypes == {"Unchecked", "UncheckedOneOrMore", "Glob"} \cup S3Types \cup FileTypes

\* GlobCharacters
GlobCharacters == {"?", "*", "["}

HasGlobCharacters(s) == ContainsAny(s, GlobCharacters)

\* hasGlob
hasGlob(s) == ContainsAny(s, {"*", "[", "]", "?"})

\* a nil *JobArgument
NilArg == [nil |-> TRUE, arg |-> <<>>, hasUrl |-> FALSE, bucket |-> <<>>, key |-> <<>>]

\* &JobArgument{s, nil}
LocalArg(s) == [nil |-> FALSE, arg |-> s, hasUrl |-> FALSE, bucket |-> <<>>, key |-> <<>>]

\* &JobArgument{s, uri}
RemoteArg(s, bucket, key) ==
    [nil |-> FALSE, arg |-> s, hasUrl |-> TRUE, bucket |-> bucket, key |-> key]

ArgOK(a) == [err |-> "", arg |-> a]

ArgErr(e) == [err |-> e, arg |-> NilArg]

parseS3Argument(s0, t, fnBase) ==
    LET uri == ParseS3Url(s0)
        s   == S3Schema \o Format(uri)
        endsInSlash == HasSuffix(uri.key, <<"/">>)
    IN IF ~uri.ok THEN ArgErr(uri.err)
       ELSE IF t \in {"S3Obj", "S3ObjOrDir"} /\ HasWild(uri.key)
       THEN ArgErr("S3 key cannot contain wildcards")
       ELSE IF t = "S3WildObj" /\ ~HasWild(uri.key)
       THEN ArgErr("S3 key should contain wildcards")
       ELSE IF t = "S3WildObj" /\ uri.key = <<>>
       THEN ArgErr("S3 key should not be empty")
       ELSE IF endsInSlash /\ t = "S3Obj"
       THEN ArgErr("S3 key should not end with /")
       ELSE IF ~endsInSlash /\ t = "S3Dir" /\ uri.key # <<>>
       THEN ArgErr("S3 dir should end with /")
       ELSE LET add1 == t = "S3ObjOrDir" /\ endsInSlash /\ fnBase # <<>>
                key1 == IF add1 THEN uri.key \o fnBase ELSE uri.key
                s1   == IF add1 THEN s \o fnBase ELSE s
                add2 == t = "S3ObjOrDir" /\ key1 = <<>> /\ fnBase # <<>>
                key2 == IF add2 THEN key1 \o fnBase ELSE key1
                s2   == IF add2 THEN s1 \o <<"/">> \o fnBase ELSE s1
            IN ArgOK(RemoteArg(s2, uri.bucket, key2))

parseFileArgument(s0, t, fnBase) ==
    LET s == IF s0 = <<".">> THEN <<".", Separator>> ELSE s0
        endsInSlash == Len(s) > 0 /\ s[Len(s)] = Separator
    IN IF ParseS3Url(s0).ok THEN ArgErr("File param resembles s3 object")
       ELSE IF hasGlob(s) THEN ArgErr("Param should not contain glob characters")
       ELSE IF t = "FileObj" /\ endsInSlash THEN ArgErr("File param should not end with /")
       ELSE IF t = "FileObj" /\ Stat(s) = "dir"
       THEN ArgErr("File param should not be a directory")
       ELSE LET s1 == IF t = "FileOrDir" /\ endsInSlash /\ fnBase # <<>>
                      THEN s \o fnBase ELSE s
            IN IF t = "FileOrDir" /\ ~endsInSlash /\ Stat(s1) = "err"
               THEN ArgErr("Could not stat")
               ELSE LET s2 == IF t = "FileOrDir" /\ ~endsInSlash /\ Stat(s1) = "dir"
                              THEN s1 \o <<Separator>> ELSE s1
                    IN IF t = "Dir" /\ ~endsInSlash /\ Stat(s2) = "err"
                       THEN ArgErr("Could not stat")
                       ELSE IF t = "Dir" /\ ~endsInSlash /\ Stat(s2) = "file"
                       THEN ArgErr("Dir param can not be file")
                       ELSE IF t = "Dir" /\ ~endsInSlash
                       THEN ArgOK(LocalArg(s2 \o <<Separator>>))
                       ELSE ArgOK(LocalArg(s2))

parseGlobArgument(s) ==
    IF ~hasGlob(s) THEN ArgErr("Param does not look like a glob")
    ELSE IF ~PatternOK(s) THEN ArgErr("syntax error in pattern")
    ELSE ArgOK(LocalArg(s))

parseArgumentByType(s, t, fnObj) ==
    LET fnBase == IF t \in {"S3ObjOrDir", "FileOrDir"} /\ ~fnObj.nil
                  THEN Base(fnObj.arg) ELSE <<>>
    IN IF t \in {"Unchecked", "UncheckedOneOrMore"} THEN ArgOK(LocalArg(s))
       ELSE IF t \in S3Types THEN parseS3Argument(s, t, fnBase)
       ELSE IF t \in FileTypes THEN parseFileArgument(s, t, fnBase)
       ELSE IF t = "Glob" THEN parseGlobArgument(s)
       ELSE ArgErr("Unhandled parseArgumentByType")

(***************************************************************************)
(* The chaining regexps                                                    *)
(***************************************************************************)
AmpAmp   == <<"&", "&">>
PipePipe == <<"|", "|">>

AllSpace(s, i, j) == \A k \in i..j : IsSpace(s[k])

\* what "." matches
AllDot(s, i, j) == \A k \in i..j : s[k] # "\n"

\* length of the run of white space that starts at position p
RECURSIVE WsRun(_, _)
WsRun(s, p) == IF p <= Len(s) /\ IsSpace(s[p]) THEN 1 + WsRun(s, p + 1) ELSE 0

\* the candidate the regexp engine prefers: \s* is greedy (longest first),
\* .+? is lazy (shortest first); <<>> when there is no candidate
Preferred(cands) ==
    IF cands = {} THEN <<>>
    ELSE CHOOSE c \in cands : \A d \in cands :
            c[1] > d[1] \/ (c[1] = d[1] /\ c[2] <= d[2])

\* `\s*(.+?)\s*$` from position p: the group as <<first, last>>, <<>> for no
\* match; a candidate is <<length of \s*, last position of the group>>
TailGroup(p, b) == IF b = <<>> THEN <<>> ELSE <<p + b[1], b[2]>>

TailMatch(s, p) ==
    TailGroup(p, Preferred({c \in (0..WsRun(s, p)) \X (p..Len(s)) :
                              /\ c[2] >= p + c[1]
                              /\ AllDot(s, p + c[1], c[2])
                              /\ AllSpace(s, c[2] + 1, Len(s))}))

\* position right after `\s*op` when that follows position e, 0 when it does not
OpAt(s, a, op) == IF HasPrefixAt(s, a, op) THEN a + Len(op) ELSE 0

AfterOp(s, e, op) == OpAt(s, e + 1 + WsRun(s, e + 1), op)

\* whether `\s*op` follows position e and the tail matches after it
TailFrom(s, q) == q # 0 /\ TailMatch(s, q) # <<>>

\* the submatches of a two-segment match whose first group is b
TwoGroups(s, b, t) == <<Slice(s, b[1] + 1, b[2]), Slice(s, t[1], t[2])>>

TwoFrom(s, op, b) ==
    IF b = <<>> THEN <<>> ELSE TwoGroups(s, b, TailMatch(s, AfterOp(s, b[2], op)))

\* `^\s*(.+?)\s*op\s*(.+?)\s*$`: regexCmdAnd and regexCmdOr.
\* The submatches <<res[1], res[2]>>, or <<>> when the line does not match.
MatchTwo(s, op) ==
    TwoFrom(s, op, Preferred({c \in (0..WsRun(s, 1)) \X (1..Len(s)) :
                                /\ c[2] >= c[1] + 1
                                /\ AllDot(s, c[1] + 1, c[2])
                                /\ TailFrom(s, AfterOp(s, c[2], op))}))

\* the middle of regexCmdAndOr from position p (right after &&):
\* `\s*(.+?)\s*\|\|` followed by the tail; <<first, last>> of the group or <<>>
MiddleMatch(s, p) ==
    TailGroup(p, Preferred({c \in (0..WsRun(s, p)) \X (p..Len(s)) :
                              /\ c[2] >= p + c[1]
                              /\ AllDot(s, p + c[1], c[2])
                              /\ TailFrom(s, AfterOp(s, c[2], PipePipe))}))

MiddleFrom(s, q) == q # 0 /\ MiddleMatch(s, q) # <<>>

ThreeGroups(s, b, m, t) ==
    <<Slice(s, b[1] + 1, b[2]), Slice(s, m[1], m[2]), Slice(s, t[1], t[2])>>

ThreeTail(s, b, m) == ThreeGroups(s, b, m, TailMatch(s, AfterOp(s, m[2], PipePipe)))

ThreeFrom(s, b) ==
    IF b = <<>> THEN <<>> ELSE ThreeTail(s, b, MiddleMatch(s, AfterOp(s, b[2], AmpAmp)))

\* regexCmdAndOr: `^\s*(.+?)\s*&&\s*(.+?)\s*\|\|\s*(.+?)\s*$`
MatchAndOr(s) ==
    ThreeFrom(s, Preferred({c \in (0..WsRun(s, 1)) \X (1..Len(s)) :
                              /\ c[2] >= c[1] + 1
                              /\ AllDot(s, c[1] + 1, c[2])
                              /\ MiddleFrom(s, AfterOp(s, c[2], AmpAmp))}))

regexCmdAndOr(s) == MatchAndOr(s)

regexCmdAnd(s) == MatchTwo(s, AmpAmp)

regexCmdOr(s) == MatchTwo(s, PipePipe)

(***************************************************************************)
(* The command table                                                       *)
(***************************************************************************)
Exit == <<"e", "x", "i", "t">>
Cp   == <<"c", "p">>
Echo == <<"e", "c", "h", "o">>
OptHelp == <<"-", "h">>
OptIfNotExists == <<"-", "n">>

\* commands: keyword, operation, params, opts, and what
\* operation.GetAcceptedOpts() gives for the operation
commands == <<
    [keyword |-> Exit, operation |-> "Abort", params |-> <<>>,
     opts |-> <<>>, accepted |-> <<OptHelp>>],
    [keyword |-> Exit, operation |-> "AbortCode", params |-> <<"Unchecked">>,
     opts |-> <<>>, accepted |-> <<OptHelp>>],
    [keyword |-> Cp, operation |-> "LocalCopy", params |-> <<"FileObj", "FileOrDir">>,
     opts |-> <<>>, accepted |-> <<OptHelp, OptIfNotExists>>],
    [keyword |-> Cp, operation |-> "BatchLocalCopy", params |-> <<"Glob", "Dir">>,
     opts |-> <<>>, accepted |-> <<OptHelp, OptIfNotExists>>],
    [keyword |-> Echo, operation |-> "Echo", params |-> <<"UncheckedOneOrMore">>,
     opts |-> <<>>, accepted |-> <<OptHelp>>] >>

(***************************************************************************)
(* parseSingleJob                                                          *)
(***************************************************************************)
\* a nil *Job
NilJob == [kind |-> "nil"]

NoJob(e, d) == [err |-> e, detail |-> d, job |-> NilJob]

InSeq(x, q) == \E i \in 1..Len(q) : q[i] = x

\* the option loop, k counted from 0 as in the code. fasp is
\* fileArgsStartPosition; it stays 1 when the loop runs off the end.
\* parts[k][0] of an empty token is an index out of range.
RECURSIVE OptScan(_, _, _, _)
OptScan(parts, accepted, k, opts) ==
    IF k >= Len(parts) THEN [panic |-> FALSE, fasp |-> 1, opts |-> opts]
    ELSE IF parts[k + 1] = <<>> THEN [panic |-> TRUE, fasp |-> k, opts |-> opts]
    ELSE IF parts[k + 1][1] # "-" THEN [panic |-> FALSE, fasp |-> k, opts |-> opts]
    ELSE IF ~InSeq(parts[k + 1], accepted) THEN [panic |-> FALSE, fasp |-> k, opts |-> opts]
    ELSE OptScan(parts, accepted, k + 1, Append(opts, parts[k + 1]))

\* `for i, t := range c.params`, i counted from 0
RECURSIVE ParamLoop(_, _, _, _, _, _)
\* one iteration once parseArgumentByType has answered r
ParamStep(parts, params, fasp, i, args, fnObj, r) ==
    IF r.err # "" THEN [err |-> r.err, args |-> args, fnObj |-> fnObj]
    ELSE ParamLoop(parts, params, fasp, i + 1, Append(args, r.arg),
                   IF params[i + 1] \in {"S3Obj", "FileObj"} /\ fnObj.nil
                   THEN r.arg ELSE fnObj)

ParamLoop(parts, params, fasp, i, args, fnObj) ==
    IF i >= Len(params) THEN [err |-> "", args |-> args, fnObj |-> fnObj]
    ELSE ParamStep(parts, params, fasp, i, args, fnObj,
                   parseArgumentByType(parts[fasp + i + 1], params[i + 1], fnObj))

\* where `for i, p := range parts` starts taking tokens: it skips i <= maxI+1
RestStart(maxI) == maxI + 2

\* `for i, p := range parts` after the declared params, i counted from 0
RECURSIVE RestLoop(_, _, _, _, _)
\* one iteration once parseArgumentByType has answered r
RestStep(parts, i, lastType, fnObj, args, r) ==
    IF r.err # "" THEN [err |-> r.err, args |-> args]
    ELSE RestLoop(parts, i + 1, lastType, fnObj, Append(args, r.arg))

RestLoop(parts, i, lastType, fnObj, args) ==
    IF i >= Len(parts) THEN [err |-> "", args |-> args]
    ELSE RestStep(parts, i, lastType, fnObj, args,
                  parseArgumentByType(parts[i + 1], lastType, fnObj))

\* minCount and maxCount of a command: maxCount is -1 for UncheckedOneOrMore
MinCount(c) == Len(c.params)

MaxCount(c) ==
    IF Len(c.params) > 0 /\ c.params[Len(c.params)] = "UncheckedOneOrMore"
    THEN -1 ELSE Len(c.params)

\* maxI after `for i, t := range c.params`: the last index of the loop, or
\* fileArgsStartPosition when the loop has no iteration
MaxI(c, fasp) == IF Len(c.params) = 0 THEN fasp ELSE Len(c.params) - 1

\* lastType after the loop over c.params
LastType(c) ==
    IF Len(c.params) = 0 THEN "UncheckedOneOrMore" ELSE c.params[Len(c.params)]

\* ourJob := &Job{...}; return ourJob, nil
NewJob(jobdesc, c, opts, rest) ==
    IF rest.err # "" THEN [st |-> "argerr", err |-> rest.err, job |-> NilJob]
    ELSE [st |-> "match", err |-> "",
          job |-> [kind |-> "job", sourceDesc |-> jobdesc, command |-> c.keyword,
                   operation |-> c.operation, args |-> rest.args, opts |-> opts,
                   successCommand |-> NilJob, failCommand |-> NilJob]]

\* `if minCount != maxCount { for i, p := range parts ... }`
AfterParams(jobdesc, parts, c, o, fixed) ==
    IF fixed.err # "" THEN [st |-> "argerr", err |-> fixed.err, job |-> NilJob]
    ELSE IF MinCount(c) # MaxCount(c)
    THEN NewJob(jobdesc, c, o.opts,
                RestLoop(parts, RestStart(MaxI(c, o.fasp)), LastType(c),
                         fixed.fnObj, fixed.args))
    ELSE NewJob(jobdesc, c, o.opts, [err |-> "", args |-> fixed.args])

\* the arity check and the loop over c.params, o being what the option loop left
AfterOpts(jobdesc, parts, c, o) ==
    IF o.panic THEN [st |-> "panic", err |-> "", job |-> NilJob]
    ELSE IF Len(parts) - o.fasp < MinCount(c)
            \/ (MaxCount(c) > -1 /\ Len(parts) - o.fasp > MaxCount(c))
    THEN [st |-> "arity", err |-> "", job |-> NilJob]
    ELSE AfterParams(jobdesc, parts, c, o,
                     ParamLoop(parts, c.params, o.fasp, 0, <<>>, NilArg))

\* the body of `if parts[0] == c.keyword`: "match", "arity" (continue before
\* any argument is parsed), "argerr" (continue with parseArgErr set) or "panic"
TryCandidate(jobdesc, parts, c) ==
    AfterOpts(jobdesc, parts, c, OptScan(parts, c.accepted, 1, c.opts))

\* `for i, c := range commands` and what follows it
RECURSIVE TryCommands(_, _, _, _, _)
\* what the loop does with the outcome r of candidate ci
AfterCandidate(jobdesc, parts, ci, parseArgErr, r) ==
    IF r.st = "panic" THEN NoJob("panic: index out of range", "")
    ELSE IF r.st = "arity"
    THEN TryCommands(jobdesc, parts, ci + 1, ci, parseArgErr)
    ELSE IF r.st = "argerr"
    THEN TryCommands(jobdesc, parts, ci + 1, ci, r.err)
    ELSE [err |-> "", detail |-> "", job |-> r.job]

TryCommands(jobdesc, parts, ci, found, parseArgErr) ==
    IF ci > Len(commands)
    THEN IF found >= 0
         THEN NoJob("Invalid parameters", parseArgErr)
         ELSE NoJob("Unknown command", "")
    ELSE IF parts[1] # commands[ci].keyword
    THEN TryCommands(jobdesc, parts, ci + 1, found, parseArgErr)
    ELSE AfterCandidate(jobdesc, parts, ci, parseArgErr,
                        TryCandidate(jobdesc, parts, commands[ci]))

Nested == "Nested commands are not supported"

\* the segment starts a comment or is empty: (nil, nil)
IsComment(jobdesc) == jobdesc = <<>> \/ jobdesc[1] = "#"

IsNestedOnlyAnd(jobdesc) == Contains(jobdesc, AmpAmp)

\* the segment still holds a chaining operator
IsNested(jobdesc) == Contains(jobdesc, AmpAmp) \/ Contains(jobdesc, PipePipe)

parseSingleJob(jobdesc) ==
    IF IsComment(jobdesc) THEN NoJob("", "")
    ELSE IF IsNested(jobdesc) THEN NoJob(Nested, "")
    ELSE TryCommands(jobdesc, Split(jobdesc, Sp), 1, -1, "")

(***************************************************************************)
(* ParseJob after the normalisation of the line                            *)
(***************************************************************************)
LinkSwapped(j, sj, fj) ==
    IF j.job = NilJob THEN NoJob("", "")
    ELSE [err |-> "", detail |-> "",
          job |-> [j.job EXCEPT !.successCommand = fj, !.failCommand = sj]]

\* j.successCommand = s; j.failCommand = f; return j, nil
Link(j, sj, fj) ==
    IF j.job = NilJob THEN NoJob("", "")
    ELSE [err |-> "", detail |-> "",
          job |-> [j.job EXCEPT !.successCommand = sj, !.failCommand = fj]]

\* the first of the given parse results that is an error, in the order the
\* segments are parsed; <<>> when none is
FirstError(rs) ==
    LET bad == {i \in 1..Len(rs) : rs[i].err # ""}
    IN IF bad = {} THEN <<>> ELSE <<rs[CHOOSE i \in bad : \A k \in bad : i <= k]>>

\* `if err != nil { return nil, err }` after each segment, then the linking
Linked(e, j, sj, fj) ==
    IF e # <<>> THEN NoJob(e[1].err, e[1].detail) ELSE Link(j, sj, fj)

LinkThree(j, sj, fj) == Linked(FirstError(<<j, sj, fj>>), j, sj.job, fj.job)

LinkAnd(j, sj) == Linked(FirstError(<<j, sj>>), j, sj.job, NilJob)

LinkOr(j, fj) == Linked(FirstError(<<j, fj>>), j, NilJob, fj.job)

LinkNone(j) == Linked(FirstError(<<j>>), j, NilJob, NilJob)

\* the if / else-if chain over the three regexps' submatches
Chained(jobdesc, ao, a, o) ==
    IF ao # <<>>
    THEN LinkThree(parseSingleJob(ao[1]), parseSingleJob(ao[2]), parseSingleJob(ao[3]))
    ELSE IF a # <<>>
    THEN LinkAnd(parseSingleJob(a[1]), parseSingleJob(a[2]))
    ELSE IF o # <<>>
    THEN LinkOr(parseSingleJob(o[1]), parseSingleJob(o[2]))
    ELSE LinkNone(parseSingleJob(jobdesc))

ParseChain(jobdesc) ==
    Chained(jobdesc, regexCmdAndOr(jobdesc), regexCmdAnd(jobdesc), regexCmdOr(jobdesc))

ParseJob(line) == ParseChain(Normalize(line))

(***************************************************************************)
(* Select.Run                                                              *)
(***************************************************************************)
NoErr == "none"

\* storage.Object as Run reads it: Type.IsDir(), Err, StorageClass.IsGlacier()
Descriptors ==
    [isDir : BOOLEAN, err : {NoErr, "cancel", "ordinary"}, glacier : BOOLEAN]

\* errorpkg.IsCancelation(err)
IsCancelation(e) == e = "cancel"

SkipOnlyDirs(d) == d.isDir

\* the first filter of the loop: directories and cancelled descriptors are dropped
SkipSilently(d) == d.isDir \/ IsCancelation(d.err)

\* the second filter: a descriptor carrying an error is printed, not submitted
HasObjErr(d) == d.err # NoErr

\* the third filter: an object on Glacier is printed, not submitted
IsGlacier(d) == d.glacier

TaskIds == 1..MaxObjs

NoTask == [st |-> "none", res |-> NoErr]

Running == {i \in TaskIds : task[i].st \in {"running", "sending"}}

\* sync.WaitGroup counter of the waiter: tasks added and not yet Done
WgCount == Cardinality(Running)

\* Run does not touch the parser's state
RunOnly == UNCHANGED <<parseVars, typeVars, fsVars>>

\* Select.Run before the range loop; the parser is not running
Init ==
    /\ seen = <<>>
    /\ pcRun = "loop"
    /\ task = [i \in TaskIds |-> NoTask]
    /\ pcColl = "recv"
    /\ collErr = <<>>
    /\ merror = <<>>
    /\ printed = {}
    /\ errchClosed = FALSE
    /\ errDoneClosed = FALSE
    /\ retval = <<>>
    /\ input = <<>>
    /\ pcParse = "idle"
    /\ normalized = <<>>
    /\ pjResult = NoJob("", "")
    /\ token = <<>>
    /\ ptype = "Unchecked"
    /\ fnObjIn = NilArg
    /\ pcType = "idle"
    /\ paResult = ArgOK(NilArg)
    /\ fsDirs = {}
    /\ fsFiles = {}
    /\ fsBad = {}

\* one iteration of `for object := range objch` up to the call of parallel.Run
RunLoopObject(d) ==
    /\ pcRun = "loop"
    /\ Len(seen) < MaxObjs
    /\ seen' = Append(seen, d)
    /\ LET i == Len(seen) + 1 IN
       IF SkipSilently(d)
       THEN UNCHANGED <<pcRun, printed>>
       ELSE IF HasObjErr(d)
       THEN /\ printed' = printed \cup {<<"object", i>>}
            /\ UNCHANGED pcRun
       ELSE IF IsGlacier(d)
       THEN /\ printed' = printed \cup {<<"glacier", i>>}
            /\ UNCHANGED pcRun
       ELSE /\ pcRun' = "acquire"
            /\ UNCHANGED printed
    /\ UNCHANGED <<task, pcColl, collErr, merror, errchClosed, errDoneClosed, retval>>
    /\ RunOnly

\* parallel.Run(task, waiter): wg.Add(1), take a pool slot, start the task
RunSubmit ==
    /\ pcRun = "acquire"
    /\ Cardinality(Running) < PoolSize
    /\ task' = [task EXCEPT ![Len(seen)] = [st |-> "running", res |-> NoErr]]
    /\ pcRun' = "loop"
    /\ UNCHANGED <<seen, pcColl, collErr, merror, printed, errchClosed,
                   errDoneClosed, retval>>
    /\ RunOnly

\* objch is closed: the range loop ends
RunLoopEnd ==
    /\ pcRun = "loop"
    /\ pcRun' = "wait"
    /\ UNCHANGED <<seen, task, pcColl, collErr, merror, printed, errchClosed,
                   errDoneClosed, retval>>
    /\ RunOnly

\* waiter.Wait(): wg.Wait(), then close the error channel
WaitReady == WgCount = 0

RunWait ==
    /\ pcRun = "wait"
    /\ WaitReady
    /\ errchClosed' = TRUE
    /\ pcRun' = "recvDone"
    /\ UNCHANGED <<seen, task, pcColl, collErr, merror, printed, errDoneClosed, retval>>
    /\ RunOnly

RecvDoneSkipped == TRUE

\* <-errDoneCh
RecvDoneReady == errDoneClosed

\* <-errDoneCh; return merror
RunReturn ==
    /\ pcRun = "recvDone"
    /\ RecvDoneReady
    /\ retval' = merror
    /\ pcRun' = "returned"
    /\ UNCHANGED <<seen, task, pcColl, collErr, merror, printed, errchClosed,
                   errDoneClosed>>
    /\ RunOnly

\* the task function returns: nil, an ordinary error or a cancellation error
TaskReturn(i, r) ==
    /\ task[i].st = "running"
    /\ task' = [task EXCEPT ![i] =
                  IF r = "ok" THEN [st |-> "done", res |-> r]
                  ELSE [st |-> "sending", res |-> r]]
    /\ UNCHANGED <<seen, pcRun, pcColl, collErr, merror, printed, errchClosed,
                   errDoneClosed, retval>>
    /\ RunOnly

CollectorStartedAfterWait == pcRun \in {"recvDone", "returned"}

\* the collector goroutine is started before the range loop
CollectorStarted == TRUE

\* waiter.errch <- err meets `for err := range waiter.Err()`: errch is unbuffered
TaskSendErr(i) ==
    /\ task[i].st = "sending"
    /\ CollectorStarted
    /\ pcColl = "recv"
    /\ collErr' = <<i, task[i].res>>
    /\ pcColl' = "append"
    /\ task' = [task EXCEPT ![i].st = "done"]
    /\ UNCHANGED <<seen, pcRun, merror, printed, errchClosed, errDoneClosed, retval>>
    /\ RunOnly

\* what the collector appends for a received error
Collected(m, e) == Append(m, e)

\* printError(...); merror = multierror.Append(merror, err)
CollectorAppend ==
    /\ pcColl = "append"
    /\ printed' = printed \cup {<<"task", collErr[1]>>}
    /\ merror' = Collected(merror, collErr)
    /\ collErr' = <<>>
    /\ pcColl' = "recv"
    /\ UNCHANGED <<seen, pcRun, task, errchClosed, errDoneClosed, retval>>
    /\ RunOnly

\* the range over waiter.Err() ends; defer close(errDoneCh)
CollectorClose ==
    /\ pcColl = "recv"
    /\ CollectorStarted
    /\ errchClosed
    /\ errDoneClosed' = TRUE
    /\ pcColl' = "done"
    /\ UNCHANGED <<seen, pcRun, task, collErr, merror, printed, errchClosed, retval>>
    /\ RunOnly

NextRun ==
    \/ \E d \in Descriptors : RunLoopObject(d)
    \/ RunSubmit
    \/ RunLoopEnd
    \/ RunWait
    \/ RunReturn
    \/ \E i \in TaskIds, r \in {"ok", "ordinary", "cancel"} : TaskReturn(i, r)
    \/ \E i \in TaskIds : TaskSendErr(i)
    \/ CollectorAppend
    \/ CollectorClose

Spec == Init /\ [][NextRun]_vars

(***************************************************************************)
(* The parser run on one line                                              *)
(***************************************************************************)
PathF == <<"f">>
PathD == <<"d">>

\* the file systems the parser is run against: every status for both paths
FsConfigs == {
    [dirs |-> {},      files |-> {},      bad |-> {}],
    [dirs |-> {PathD}, files |-> {PathF}, bad |-> {}],
    [dirs |-> {PathF}, files |-> {PathD}, bad |-> {}],
    [dirs |-> {},      files |-> {},      bad |-> {PathF, PathD}] }

DefaultFs == [dirs |-> {PathD}, files |-> {PathF}, bad |-> {}]

Spaces(n) == [i \in 1..n |-> " "]

\* segments: two that match a command, one with a lone operator character,
\* one that fails validation, one that starts with '#'
EchoA    == Echo \o Sp \o <<"a">>
EchoPipe == Echo \o Sp \o <<"a", "|">>
CpNoArgs == Cp
HashX    == <<"#", "x">>
Segs == {EchoA, Exit, CpNoArgs, HashX}
LongChainSegs == {EchoA, Exit, HashX}

\* how two segments are joined
And == Sp \o AmpAmp \o Sp
Or  == Sp \o PipePipe \o Sp
Ops == {And, Or}

\* s1 op1 s2 op2 ... sn
RECURSIVE Chain(_, _)
Chain(segs, ops) ==
    IF Len(segs) = 1 THEN segs[1]
    ELSE segs[1] \o ops[1] \o Chain(Tail(segs), Tail(ops))

ChainsOf(n) ==
    {Chain(segs, ops) : segs \in [1..n -> LongChainSegs], ops \in [1..(n - 1) -> Ops]}

\* chains of segments, with and without spaces around the operators
ChainLines ==
    UNION {ChainsOf(n) : n \in 1..MaxSegs}
    \cup Segs
    \cup {Chain(<<x, y, z>>, <<o1, o2>>) :
            x \in Segs, y \in Segs, z \in Segs,
            o1 \in Ops \cup {AmpAmp, PipePipe}, o2 \in Ops \cup {AmpAmp, PipePipe}}
    \cup {Chain(<<EchoPipe, x, y>>, <<o1, o2>>) :
            x \in {EchoA, EchoPipe}, y \in {Exit, EchoPipe}, o1 \in Ops, o2 \in Ops}

\* lines with runs of spaces, leading and trailing spaces and a comment
SpaceLines ==
    {Spaces(l) \o Echo \o Spaces(n) \o <<"a">> \o Spaces(m) \o t :
        l \in 0..2, n \in 1..MaxRun, m \in 0..MaxRun,
        t \in {<<>>, <<"b">>, <<"#", "c">>}}

\* lines of one command: a keyword and tokens, some of them flags
ArgToks == {OptHelp, OptIfNotExists, <<"-", "x">>, PathF, <<"d", "/">>, <<"*">>}

RECURSIVE JoinToks(_)
JoinToks(ts) == IF ts = <<>> THEN <<>> ELSE Sp \o Head(ts) \o JoinToks(Tail(ts))

ArgLines(keywords) ==
    UNION {{k \o JoinToks(ts) : k \in keywords, ts \in [1..n -> ArgToks]}
           : n \in 0..MaxToks}

\* a line and a file system; Select.Run and the validator are not running
InitParse ==
    /\ \E fam \in {"chain", "space", "args", "cp"} :
         \E c \in (IF fam = "cp" THEN FsConfigs ELSE {DefaultFs}) :
            /\ input \in (CASE fam = "chain" -> ChainLines
                             [] fam = "space" -> SpaceLines
                             [] fam = "args"  -> ArgLines({Echo, Exit})
                             [] fam = "cp"    -> ArgLines({Cp}))
            /\ fsDirs = c.dirs
            /\ fsFiles = c.files
            /\ fsBad = c.bad
    /\ pcParse = "start"
    /\ normalized = <<>>
    /\ pjResult = NoJob("", "")
    /\ seen = <<>>
    /\ pcRun = "idle"
    /\ task = [i \in TaskIds |-> NoTask]
    /\ pcColl = "idle"
    /\ collErr = <<>>
    /\ merror = <<>>
    /\ printed = {}
    /\ errchClosed = FALSE
    /\ errDoneClosed = FALSE
    /\ retval = <<>>
    /\ token = <<>>
    /\ ptype = "Unchecked"
    /\ fnObjIn = NilArg
    /\ pcType = "idle"
    /\ paResult = ArgOK(NilArg)

\* ParseJob(input)
ParseJobCall ==
    /\ pcParse = "start"
    /\ normalized' = Normalize(input)
    /\ pjResult' = ParseJob(input)
    /\ pcParse' = "done"
    /\ UNCHANGED <<input, runVars, typeVars, fsVars>>

NextParse == ParseJobCall

SpecParse == InitParse /\ [][NextParse]_vars

(***************************************************************************)
(* The validator run on one token                                          *)
(***************************************************************************)
TokChars == {"a", "*", "?", "[", "]", "/", "."}

LocalTokens == UNION {[1..n -> TokChars] : n \in 0..MaxTokLen}

S3Bucket == S3Schema \o <<"b">>

RemoteTokens ==
    {S3Bucket \o k : k \in {<<>>, <<"/">>, <<"/", "k">>, <<"/", "k", "/">>, <<"/", "*">>,
                           <<"/", "/", "k">>}}
    \cup {S3Schema, S3Schema \o <<"*">>}

\* a token, a type, an fnObj and a file system; nothing else is running
InitType ==
    /\ token \in LocalTokens \cup RemoteTokens \cup {PathF, PathD}
    /\ ptype \in ParamTypes
    /\ fnObjIn \in {NilArg, LocalArg(<<"d", "/", "f">>)}
    /\ \E c \in FsConfigs : fsDirs = c.dirs /\ fsFiles = c.files /\ fsBad = c.bad
    /\ pcType = "start"
    /\ paResult = ArgOK(NilArg)
    /\ seen = <<>>
    /\ pcRun = "idle"
    /\ task = [i \in TaskIds |-> NoTask]
    /\ pcColl = "idle"
    /\ collErr = <<>>
    /\ merror = <<>>
    /\ printed = {}
    /\ errchClosed = FALSE
    /\ errDoneClosed = FALSE
    /\ retval = <<>>
    /\ input = <<>>
    /\ pcParse = "idle"
    /\ normalized = <<>>
    /\ pjResult = NoJob("", "")

\* parseArgumentByType(token, ptype, fnObjIn)
ValidateCall ==
    /\ pcType = "start"
    /\ paResult' = parseArgumentByType(token, ptype, fnObjIn)
    /\ pcType' = "done"
    /\ UNCHANGED <<token, ptype, fnObjIn, runVars, parseVars, fsVars>>

NextType == ValidateCall

SpecType == InitType /\ [][NextType]_vars

\* Scheduling: the Go runtime runs every goroutine that can take a step, the
\* enumerator closes objch after finitely many descriptors, every task returns.
FairSpec ==
    /\ Spec
    /\ WF_vars(\E d \in Descriptors : RunLoopObject(d))
    /\ WF_vars(RunSubmit \/ RunLoopEnd \/ RunWait \/ RunReturn)
    /\ \A i \in TaskIds :
         WF_vars((\E r \in {"ok", "ordinary", "cancel"} : TaskReturn(i, r)) \/ TaskSendErr(i))
    /\ WF_vars(CollectorAppend \/ CollectorClose)

(***************************************************************************)
(* Claims about Select.Run                                                 *)
(***************************************************************************)
Finished(i) == task[i].st \in {"none", "done"}

FailedTasks(kind) == {i \in TaskIds : task[i].res = kind}

Lists(agg, i) == \E k \in 1..Len(agg) : agg[k][1] = i

\* C1: Wait() does not return before every submitted task has finished; Run
\* reads merror only after Wait() has returned and the collector has closed
\* errDoneCh; only the collector's append writes merror, and never after Run
\* has read it (what Run returned stays equal to merror).
C1_JoinBeforeRead ==
    /\ [](pcRun \in {"recvDone", "returned"} => \A i \in TaskIds : Finished(i))
    /\ [](pcRun = "returned" =>
            /\ errchClosed /\ errDoneClosed /\ pcColl = "done"
            /\ retval = merror)
    /\ [][merror' # merror => pcColl = "append" /\ pcRun' # "returned"]_vars

C1_Witness ==
    /\ pcRun = "returned"
    /\ Len(retval) >= 2
    /\ FailedTasks("ok") # {}

\* C2 (as claimed): the aggregate Run returns has exactly one entry per task
\* that failed with an ordinary error and none for a task whose error is a
\* cancellation.
C2_OnlyOrdinaryEntries ==
    pcRun = "returned" =>
        /\ Len(retval) = Cardinality(FailedTasks("ordinary"))
        /\ \A i \in FailedTasks("ordinary") : Lists(retval, i)
        /\ \A i \in FailedTasks("cancel") : ~Lists(retval, i)

\* C3 (as claimed): Run returns nil only when everything succeeded: a
\* descriptor with a non-cancellation error, a descriptor on Glacier and a
\* failed task are each listed in the aggregate returned.
C3_NoSilentPartialSuccess ==
    pcRun = "returned" =>
        \A i \in 1..Len(seen) :
            (\/ seen[i].err = "ordinary"
             \/ seen[i].glacier
             \/ task[i].res = "ordinary")
            => (retval # <<>> /\ Lists(retval, i))

Submitted(i) == task[i].st # "none" \/ (pcRun = "acquire" /\ i = Len(seen))

Reported(i) == <<"object", i>> \in printed \/ <<"glacier", i>> \in printed

\* C4: a task is submitted for a descriptor iff it is no directory, carries no
\* error and is not on Glacier; directories and cancelled descriptors give
\* neither a task nor a reported error; this holds whatever earlier tasks did.
C4_SubmitIffEligible ==
    /\ \A i \in 1..Len(seen) :
        /\ Submitted(i) <=>
             (~seen[i].isDir /\ seen[i].err = NoErr /\ ~seen[i].glacier)
        /\ (seen[i].isDir \/ seen[i].err = "cancel")
             => (~Submitted(i) /\ ~Reported(i))
    /\ \A i \in TaskIds : i > Len(seen) => ~Submitted(i)

C4_Witness ==
    \E i, j, k \in 1..Len(seen) :
        /\ i < j /\ j < k
        /\ task[i].st = "done" /\ task[i].res = "ordinary"
        /\ seen[j].err = "cancel" /\ ~seen[j].isDir
        /\ task[k].st = "running"

\* C5: under fair scheduling Run always gets past Wait() and <-errDoneCh and
\* returns, however many tasks fail.
C5_RunReturns == <>(pcRun = "returned")

C5_Witness ==
    /\ pcRun = "returned"
    /\ Cardinality(FailedTasks("ordinary") \cup FailedTasks("cancel")) > PoolSize

(***************************************************************************)
(* Claims about ParseJob, parseSingleJob and parseArgumentByType           *)
(***************************************************************************)
HasOp(seg) == Contains(seg, AmpAmp) \/ Contains(seg, PipePipe)

\* segments free of operators that match a command
Matching == {seg \in Segs \cup {EchoPipe} :
               ~HasOp(seg) /\ parseSingleJob(seg).err = "" /\ parseSingleJob(seg).job # NilJob}

JobOf(seg) == parseSingleJob(seg).job

Returned(j, sj, fj) ==
    /\ pjResult.err = ""
    /\ pjResult.job = [j EXCEPT !.successCommand = sj, !.failCommand = fj]

\* C6: for operator-free segments A, B, C that match a command,
\* `A && B || C` gives Job(A) with successCommand Job(B) and failCommand Job(C),
\* `A && B` gives Job(A) with successCommand Job(B) and no failCommand,
\* `A || B` gives Job(A) with failCommand Job(B) and no successCommand,
\* and `A` alone gives Job(A) with neither.
C6_ChainShapes ==
    pcParse = "done" =>
        LET M == Matching
        IN \A A \in M :
            /\ input = A => Returned(JobOf(A), NilJob, NilJob)
            /\ \A B \in M :
                /\ input = Chain(<<A, B>>, <<And>>) => Returned(JobOf(A), JobOf(B), NilJob)
                /\ input = Chain(<<A, B>>, <<Or>>) => Returned(JobOf(A), NilJob, JobOf(B))
                /\ \A C \in M :
                     input = Chain(<<A, B, C>>, <<And, Or>>)
                        => Returned(JobOf(A), JobOf(B), JobOf(C))

C6_Witness ==
    /\ pcParse = "done"
    /\ input = Chain(<<EchoPipe, EchoA, Exit>>, <<And, Or>>)
    /\ pjResult.job # NilJob
    /\ pjResult.job.successCommand # NilJob
    /\ pjResult.job.failCommand # NilJob

\* the segments ParseJob hands to parseSingleJob, in the order it parses them
Handed(jobdesc) ==
    LET ao == regexCmdAndOr(jobdesc)
        a  == regexCmdAnd(jobdesc)
        o  == regexCmdOr(jobdesc)
    IN IF ao # <<>> THEN ao
       ELSE IF a # <<>> THEN a
       ELSE IF o # <<>> THEN o
       ELSE <<jobdesc>>

Rejected == pjResult.err # "" /\ pjResult.job = NilJob

\* segments that hold no operator and match a command on any file system
CleanSegs == {EchoA, Exit, EchoPipe}

\* the lines of three or more such segments whose chaining is none of the
\* three shapes
UnfitLines ==
    UNION {{Chain(segs, ops) : segs \in [1..n -> CleanSegs],
                               ops \in {o \in [1..(n - 1) -> Ops] : n > 3 \/ o # <<And, Or>>}}
           : n \in 3..MaxSegs}

\* C7 (as claimed): every segment handed to parseSingleJob that still contains
\* && or || fails with the nested-commands error, and ParseJob then returns an
\* error and no Job.
C7_EveryNestedSegmentFails ==
    pcParse = "done" =>
        \A k \in 1..Len(Handed(normalized)) :
            HasOp(Handed(normalized)[k])
              => (parseSingleJob(Handed(normalized)[k]).err = Nested /\ Rejected)

\* C7 (amended): every handed segment that does not start with '#' and still
\* contains && or || makes ParseJob return an error and no Job, the nested-
\* commands error when the segments parsed before it were fine; any segment's
\* error makes ParseJob return an error and no Job; a line of three or more
\* matching segments whose chaining is none of the three shapes is rejected
\* with the nested-commands error.
C7_NestedRejected ==
    pcParse = "done" =>
        LET H == Handed(normalized)
            R == [k \in 1..Len(H) |-> parseSingleJob(H[k]).err]
        IN /\ \A k \in 1..Len(H) :
                /\ (HasOp(H[k]) /\ ~IsComment(H[k]))
                     => /\ Rejected
                        /\ (\A m \in 1..(k - 1) : R[m] = "") => pjResult.err = Nested
                /\ R[k] # "" => Rejected
           /\ input \in UnfitLines => (Rejected /\ pjResult.err = Nested)

C7_Witness ==
    /\ pcParse = "done"
    /\ input = Chain(<<EchoA, Exit, EchoA, Exit>>, <<And, Or, Or>>)
    /\ pjResult.err = Nested

\* C8 (as claimed): after the normalisation nothing from the first " #" on is
\* left, there is no leading or trailing white space, and splitting on one
\* space gives no empty token.
C8_TokensNonEmpty ==
    (pcParse = "done" /\ normalized # <<>>) =>
        /\ ~Contains(normalized, <<" ", "#">>)
        /\ ~IsSpace(normalized[1]) /\ ~IsSpace(normalized[Len(normalized)])
        /\ \A k \in 1..Len(Split(normalized, Sp)) : Split(normalized, Sp)[k] # <<>>

\* the command table entry a Job was built from
EntryOf(job) == CHOOSE c \in {commands[i] : i \in 1..Len(commands)} :
                    c.operation = job.operation

\* the number of leading tokens after the keyword that are accepted flags
RECURSIVE LeadingFlags(_, _)
LeadingFlags(toks, accepted) ==
    IF toks # <<>> /\ Head(toks) # <<>> /\ Head(toks)[1] = "-" /\ InSeq(Head(toks), accepted)
    THEN 1 + LeadingFlags(Tail(toks), accepted)
    ELSE 0

\* C9 (as claimed): the leading accepted flags are the Job's options and its
\* arguments are exactly the tokens after them, one per token, in order (the
\* token itself for the unchecked types), with or without flags and also
\* when every token after the keyword is a flag.
C9_ArgsFollowFlags ==
    (pcParse = "done" /\ ~HasOp(normalized) /\ pjResult.job # NilJob) =>
        LET parts == Split(normalized, Sp)
            c     == EntryOf(pjResult.job)
            nf    == LeadingFlags(Tail(parts), c.accepted)
            args  == pjResult.job.args
        IN /\ pjResult.job.opts = c.opts \o SubSeq(parts, 2, 1 + nf)
           /\ Len(args) = Len(parts) - 1 - nf
           /\ \A i \in 1..Len(args) :
                (i > Len(c.params) \/ c.params[i] \in {"Unchecked", "UncheckedOneOrMore"})
                  => args[i].arg = parts[1 + nf + i]

\* C10 (as claimed): a token accepted as Glob contains one of ? * [, and a
\* token that is no remote location is refused for glob characters as
\* FileObj, FileOrDir or Dir exactly when it contains one of them.
C10_GlobCharacters ==
    pcType = "done" =>
        /\ (ptype = "Glob" /\ paResult.err = "") => HasGlobCharacters(token)
        /\ (ptype \in FileTypes /\ ~ParseS3Url(token).ok) =>
              (paResult.err = "Param should not contain glob characters"
                 <=> HasGlobCharacters(token))

====
